---- MODULE Spec2Model ----
(***************************************************************************)
(* Model of p2pmmap.c: a misc character device that exposes a block of     *)
(* PCI peer-to-peer memory of one device through open/mmap/fault/release.  *)
(*                                                                         *)
(* Kernel services the driver calls (sscanf, pci_get_domain_bus_and_slot,  *)
(* pci_has_p2pmem, pci_alloc_p2pmem, misc_register, virt_to_phys,          *)
(* pfn_valid, the fault dispatch of the memory manager, the module         *)
(* reference count taken through .owner) are modelled as the environment   *)
(* of the driver; their outcomes are drawn from small sets.                *)
(***************************************************************************)
EXTENDS Integers, Sequences, FiniteSets, TLC

(***************************************************************************)
(* Bounds of the model                                                     *)
(***************************************************************************)
NumCallers == 2        \* processes that use /dev/p2pmmap concurrently
MaxSizePages == 3      \* p2pmem_size parameters up to this many pages (+1 byte)
MaxPgoff == 1          \* vm_pgoff of an mmap request
MaxLenPages == 2       \* vm_end - vm_start of an mmap request, in pages (+1 byte)
MaxFaults == 2         \* page faults recorded in one run
MaxUnderflow == 2      \* how far below zero pmm.opened is followed

(***************************************************************************)
(* Constants of the kernel                                                 *)
(***************************************************************************)
PAGE_SHIFT == 12
PAGE_SIZE == 2 ^ PAGE_SHIFT
\* Width of unsigned long and of pointers (pci-p2pdma needs a 64-bit kernel)
BITS_PER_LONG == 64
NULL == 0
EINVAL == 22
EBUSY == 16
ENOMEM == 12
ENOTSUPP == 524
VM_FAULT_SIGBUS == 2

Procs == 1 .. NumCallers

(***************************************************************************)
(* unsigned long, size_t and pointers: 64-bit words.  A word is the        *)
(* sequence of its 16-bit limbs, least significant first, so that every    *)
(* value of the type is a value of the model and the arithmetic wraps      *)
(* where the machine's does.                                               *)
(***************************************************************************)
LimbMod == 2 ^ 16
NumLimbs == BITS_PER_LONG \div 16
Limbs == 1 .. NumLimbs

\* The word of a natural number below 2^31
ToWord(n) ==
  [i \in Limbs |-> IF i = 1 THEN n % LimbMod ELSE IF i = 2 THEN n \div LimbMod ELSE 0]

\* The word is below 2^31, and its value as a number
Fits(w) == w[2] < LimbMod \div 2 /\ \A i \in 3 .. NumLimbs : w[i] = 0
WordVal(w) == w[2] * LimbMod + w[1]

\* The carry into limb i of x + y, and the borrow from limb i of x - y
RECURSIVE Carry(_, _, _)
Carry(x, y, i) ==
  IF i = 1 THEN 0 ELSE (x[i - 1] + y[i - 1] + Carry(x, y, i - 1)) \div LimbMod
RECURSIVE Borrow(_, _, _)
Borrow(x, y, i) ==
  IF i = 1 THEN 0
  ELSE IF x[i - 1] - y[i - 1] - Borrow(x, y, i - 1) < 0 THEN 1 ELSE 0

\* x + y and x - y on unsigned longs
WordAdd(x, y) == [i \in Limbs |-> (x[i] + y[i] + Carry(x, y, i)) % LimbMod]
WordSub(x, y) == [i \in Limbs |-> (x[i] - y[i] - Borrow(x, y, i)) % LimbMod]

\* x << PAGE_SHIFT and x >> PAGE_SHIFT on an unsigned long
ShiftLeft(x) ==
  [i \in Limbs |-> ((x[i] * PAGE_SIZE) % LimbMod)
                     + (IF i = 1 THEN 0 ELSE x[i - 1] \div (LimbMod \div PAGE_SIZE))]
ShiftRight(x) ==
  [i \in Limbs |-> (x[i] \div PAGE_SIZE)
                     + (IF i = NumLimbs THEN 0
                        ELSE (x[i + 1] % PAGE_SIZE) * (LimbMod \div PAGE_SIZE))]

\* x < y and x <= y on unsigned longs
WordLt(x, y) ==
  \E i \in Limbs : x[i] < y[i] /\ \A j \in (i + 1) .. NumLimbs : x[j] = y[j]
WordLe(x, y) == x = y \/ WordLt(x, y)

\* The null pointer
NullPtr == ToWord(0)

\* Start of the kernel's linear mapping, 0xffff888000000000:
\* virt_to_phys(va) = va - PAGE_OFFSET
PAGE_OFFSET == <<0, 0, 34944, 65535>>

(***************************************************************************)
(* sscanf(target_pci_dev, "%x:%x:%x.%x", ...) and "%x:%x.%x"               *)
(* A string is a sequence of one-character strings.  A format is a         *)
(* sequence whose items are "%x" or a literal character.                   *)
(***************************************************************************)
\* The digits, in the order of their values, in lower and in upper case
HexChars == <<"0", "1", "2", "3", "4", "5", "6", "7", "8", "9",
              "a", "b", "c", "d", "e", "f">>
HexCharsUpper == <<"0", "1", "2", "3", "4", "5", "6", "7", "8", "9",
                   "A", "B", "C", "D", "E", "F">>

HexDigits == {HexChars[i] : i \in 1 .. Len(HexChars)}
               \cup {HexCharsUpper[i] : i \in 1 .. Len(HexCharsUpper)}

HexVal(c) ==
  (CHOOSE i \in 1 .. Len(HexChars) : HexChars[i] = c \/ HexCharsUpper[i] = c) - 1

\* The vertical tab (0x0b) and the no-break space (0xa0), which have no
\* escape in a string: the literals hold the characters themselves
VerticalTab == ""
NoBreakSpace == " "

\* isspace of the kernel (lib/ctype.c): 0x09 .. 0x0d, 0x20 and 0xa0
WhiteSpace == {" ", "\t", "\n", VerticalTab, "\f", "\r", NoBreakSpace}

Fmt4 == <<"%x", ":", "%x", ":", "%x", ".", "%x">>
Fmt3 == <<"%x", ":", "%x", ".", "%x">>

\* Position after the white space of s that starts at i
RECURSIVE SkipSpaces(_, _)
SkipSpaces(s, i) ==
  IF i <= Len(s) /\ s[i] \in WhiteSpace THEN SkipSpaces(s, i + 1) ELSE i

\* Position after the radix prefix 0x or 0X of s at i, if there is one
SkipRadix(s, i) ==
  IF i + 1 <= Len(s) /\ s[i] = "0" /\ s[i + 1] \in {"x", "X"} THEN i + 2 ELSE i

\* Position after the longest run of hex digits of s that starts at i.
RECURSIVE HexEnd(_, _)
HexEnd(s, i) ==
  IF i <= Len(s) /\ s[i] \in HexDigits THEN HexEnd(s, i + 1) ELSE i

\* Value of the hex digits s[i .. j-1] as %x stores it into an int: the low
\* 32 bits of the number, as a signed value.  acc is the upper and the lower
\* half of the 32 bits read so far.
RECURSIVE HexNum(_, _, _, _)
HexNum(s, i, j, acc) ==
  IF i >= j
  THEN (IF acc[1] >= LimbMod \div 2 THEN acc[1] - LimbMod ELSE acc[1]) * LimbMod + acc[2]
  ELSE LET lo == acc[2] * 16 + HexVal(s[i])
           hi == acc[1] * 16 + lo \div LimbMod
       IN HexNum(s, i + 1, j, <<hi % LimbMod, lo % LimbMod>>)

\* The values sscanf assigns, in order; their number is sscanf's result.
\* %x skips white space, requires a hex digit, and reads past a radix prefix.
RECURSIVE sscanf(_, _, _, _, _)
sscanf(s, si, fmt, fi, vals) ==
  IF fi > Len(fmt) THEN vals
  ELSE IF fmt[fi] = "%x"
       THEN LET b == SkipSpaces(s, si)
                d == SkipRadix(s, b)
                j == HexEnd(s, d)
            IN
            IF b > Len(s) \/ s[b] \notin HexDigits THEN vals
            ELSE sscanf(s, j, fmt, fi + 1, Append(vals, HexNum(s, d, j, <<0, 0>>)))
       ELSE IF si <= Len(s) /\ s[si] = fmt[fi]
            THEN sscanf(s, si + 1, fmt, fi + 1, vals)
            ELSE vals

\* The i-th value of vals if sscanf assigned it, else the variable's old value
Assigned(vals, i, old) == IF i <= Len(vals) THEN vals[i] ELSE old

\* Variant of the parsing without the reset of domain before the second attempt
ParseLocator_NoReset(s) ==
  LET v4 == sscanf(s, 1, Fmt4, 1, <<>>) IN
  IF Len(v4) >= 4
  THEN [ret |-> Len(v4), domain |-> v4[1], bus |-> v4[2],
        slot |-> v4[3], func |-> v4[4]]
  ELSE LET v3 == sscanf(s, 1, Fmt3, 1, <<>>) IN
       [ret |-> Len(v3), domain |-> Assigned(v4, 1, 0), bus |-> Assigned(v3, 1, 0),
        slot |-> Assigned(v3, 2, 0), func |-> Assigned(v3, 3, 0)]

\* Lines 133-141: domain/bus/slot/func and ret after the two parsing attempts
ParseLocator(s) ==
  LET v4 == sscanf(s, 1, Fmt4, 1, <<>>) IN
  IF Len(v4) >= 4
  THEN [ret |-> Len(v4), domain |-> v4[1], bus |-> v4[2],
        slot |-> v4[3], func |-> v4[4]]
  ELSE LET v3 == sscanf(s, 1, Fmt3, 1, <<>>) IN
       [ret |-> Len(v3), domain |-> 0, bus |-> Assigned(v3, 1, 0),
        slot |-> Assigned(v3, 2, 0), func |-> Assigned(v3, 3, 0)]

PCI_DEVFN(slot, func) == (slot % 32) * 8 + (func % 8)

(***************************************************************************)
(* The platform: the PCI devices present, by id (NULL is no device)        *)
(***************************************************************************)
PlatformDevices ==
  { [id |-> 1, domain |-> 0, bus |-> 1, devfn |-> PCI_DEVFN(0, 0), p2pmem |-> TRUE],
    [id |-> 2, domain |-> 0, bus |-> 2, devfn |-> PCI_DEVFN(3, 1), p2pmem |-> FALSE],
    [id |-> 3, domain |-> 1, bus |-> 10, devfn |-> PCI_DEVFN(0, 0), p2pmem |-> TRUE] }

pci_get_domain_bus_and_slot(domain, bus, devfn) ==
  LET m == {d \in PlatformDevices :
              d.domain = domain /\ d.bus = bus /\ d.devfn = devfn} IN
  IF m = {} THEN NULL ELSE (CHOOSE d \in m : TRUE).id

pci_has_p2pmem(pdev) == \E d \in PlatformDevices : d.id = pdev /\ d.p2pmem

\* Frames the platform has a struct page for: FirstFrame .. NumFrames - 1
\* (frame 0 has none); a region may start at any of AllocFrames
FirstFrame == 1
NumFrames == 19
AllocFrames == {0, 17}
AllocAddrs == {WordAdd(PAGE_OFFSET, ToWord(f * PAGE_SIZE)) : f \in AllocFrames}
pfn_valid(pfn) == Fits(pfn) /\ WordVal(pfn) >= FirstFrame /\ WordVal(pfn) < NumFrames
virt_to_phys(va) == WordSub(va, PAGE_OFFSET)

(***************************************************************************)
(* Module parameters the model is run with                                 *)
(***************************************************************************)
Str(s) == [null |-> FALSE, s |-> s]
NullStr == [null |-> TRUE, s |-> <<>>]

LocatorChoices ==
  { NullStr,
    Str(<<"0", "0", "0", "0", ":", "0", "1", ":", "0", "0", ".", "0">>),
    Str(<<"0", "1", ":", "0", "0", ".", "0">>),
    Str(<<"2", ":", "3", ".", "1">>),
    Str(<<"3", ":", "0", ".", "0">>),
    Str(<<"0", "1", ":", "0", "0">>),
    Str(<<"1", ":", "0", ":", "0">>),
    Str(<<>>) }

SizeChoices == {k * PAGE_SIZE + d : k \in 0 .. MaxSizePages, d \in {0, 1}}

\* The hexadecimal digits of n, most significant first
RECURSIVE HexStr(_)
HexStr(n) ==
  IF n < 16 THEN <<HexChars[n + 1]>>
  ELSE Append(HexStr(n \div 16), HexChars[(n % 16) + 1])

\* s with zeros in front of it up to width w
RECURSIVE ZeroPad(_, _)
ZeroPad(s, w) == IF Len(s) >= w THEN s ELSE ZeroPad(<<"0">> \o s, w)

\* The locator of a device address as the user writes it; w = 1 writes the
\* shortest digits and w = 2 the padded form of lspci, 0000:00:00.0
Format4(d, b, sl, f, w) ==
  ZeroPad(HexStr(d), 2 * w) \o <<":">> \o ZeroPad(HexStr(b), w) \o <<":">>
    \o ZeroPad(HexStr(sl), w) \o <<".">> \o HexStr(f)
Format3(b, sl, f, w) ==
  ZeroPad(HexStr(b), w) \o <<":">> \o ZeroPad(HexStr(sl), w) \o <<".">> \o HexStr(f)

\* The string with its digits a-f in upper case
UpperCase(s) ==
  [i \in 1 .. Len(s) |-> IF s[i] \in HexDigits THEN HexCharsUpper[HexVal(s[i]) + 1]
                          ELSE s[i]]

\* Fields of the addresses the parsing is run on
DomainFields == {0, 1, 43981}
BusFields == {0, 1, 2, 10, 255}
SlotFields == {0, 3, 31}
FuncFields == {0, 1, 7}
Widths == {1, 2}

FourComponentLocators ==
  LET lower == {Format4(d, b, sl, f, w) : d \in DomainFields, b \in BusFields,
                                          sl \in SlotFields, f \in FuncFields,
                                          w \in Widths}
  IN lower \cup {UpperCase(x) : x \in lower}
ThreeComponentLocators ==
  LET lower == {Format3(b, sl, f, w) : b \in BusFields, sl \in SlotFields,
                                       f \in FuncFields, w \in Widths}
  IN lower \cup {UpperCase(x) : x \in lower}

\* Strings that are no locator: a locator cut short, with a separator
\* replaced, doubled or in front, with characters after its last field, with
\* white space or a radix prefix in front of a field, and with a field of more
\* than 32 bits
OtherStrings ==
  LET some == {Format3(b, 0, f, 2) : b \in {1, 2}, f \in {0, 1}}
                \cup {Format4(d, 1, 0, 0, 2) : d \in {0, 1}}
  IN
  {SubSeq(x, 1, Len(x) - 2) : x \in some}
    \cup {[x EXCEPT ![Len(x) - 1] = "-"] : x \in some}
    \cup {[x EXCEPT ![Len(x)] = "g"] : x \in some}
    \cup {<<":">> \o x : x \in some}
    \cup {x \o <<"g">> : x \in some}
    \cup {x \o <<".", "1">> : x \in some}
    \cup {x \o <<":">> : x \in some}
    \cup {<<" ">> \o x : x \in some}
    \cup {<<VerticalTab>> \o x : x \in some}
    \cup {SubSeq(x, 1, Len(x) - 1) \o <<NoBreakSpace>> \o SubSeq(x, Len(x), Len(x)) :
             x \in some}
    \cup {<<"0", "x">> \o x : x \in some}
    \cup {SubSeq(x, 1, Len(x) - 1) \o <<"\t", "0", "X">> \o SubSeq(x, Len(x), Len(x)) :
             x \in some}
    \cup {<<"1", "0", "0", "0", "0", "0", "0", "0">> \o x : x \in some}
    \cup {<<>>, <<"g">>, <<"1", ":", "0", ":", "0">>, <<"1", ":", ":", "0", ".", "0">>}

ParseChoices ==
  {NullStr} \cup {Str(x) : x \in FourComponentLocators \cup ThreeComponentLocators
                                 \cup OtherStrings}

(***************************************************************************)
(* State                                                                   *)
(***************************************************************************)
VARIABLES
  target_pci_dev,   \* module parameter: the locator string, or a null pointer
  p2pmem_size,      \* module parameter: the size of the region in bytes
  pmm,              \* struct p2pmmap pmm: pdev, p2pmem, size, opened
  mod_state,        \* "unloaded", "failed", "live", "going", "gone"
  init_ret,         \* what p2pmmap_init returned
  init_site,        \* the statement of p2pmmap_init that decided its result
  parsed,           \* ret, domain, bus, slot, func of p2pmmap_init after parsing
  registered,       \* the misc device is registered
  calls,            \* the platform calls of init and exit, in order
  exit_pc,          \* next statement of p2pmmap_exit
  pc,               \* per caller: "idle", "inc" (inside open, check passed), "opened"
  ret,              \* per caller: the return value of its last call
  vma,              \* per caller: the vma of its last mmap request
  faults,           \* the page faults served: request and result
  page_ref,         \* references taken on page frames by get_page
  n_faults          \* page faults served

vars == <<target_pci_dev, p2pmem_size, pmm, mod_state, init_ret, init_site, parsed,
          registered, calls, exit_pc, pc, ret, vma, faults, page_ref, n_faults>>

modvars == <<target_pci_dev, p2pmem_size, mod_state, init_ret, init_site, parsed,
             registered, calls, exit_pc>>

\* static struct p2pmmap pmm: zero-initialised, and zeroed again by memset
PmmZero == [pdev |-> NULL, p2pmem |-> NullPtr, size |-> 0, opened |-> 0]

\* The value of ret[p] while caller p has not made any call
NoRet == 1

NoVma == [vm_pgoff |-> ToWord(0), len |-> ToWord(0), vm_ops |-> FALSE]

\* The value of parsed while p2pmmap_init has not parsed a locator
NoAddr == [ret |-> 0, domain |-> 0, bus |-> 0, slot |-> 0, func |-> 0]

\* The state before insmod, with the module parameters drawn from the given sets
InitWith(locators, sizes) ==
  /\ target_pci_dev \in locators
  /\ p2pmem_size \in sizes
  /\ parsed = NoAddr
  /\ pmm = PmmZero
  /\ mod_state = "unloaded"
  /\ init_ret = 0
  /\ init_site = "none"
  /\ registered = FALSE
  /\ calls = <<>>
  /\ exit_pc = 1
  /\ pc = [p \in Procs |-> "idle"]
  /\ ret = [p \in Procs |-> NoRet]
  /\ vma = [p \in Procs |-> NoVma]
  /\ faults = {}
  /\ page_ref = [f \in {} |-> 0]
  /\ n_faults = 0

Init == InitWith(LocatorChoices, SizeChoices)

\* The state before insmod with any of the strings as target_pci_dev and a
\* p2pmem_size of one page
InitParse == InitWith(ParseChoices, {PAGE_SIZE})

(***************************************************************************)
(* Platform calls and what is outstanding after them                       *)
(***************************************************************************)
Call(fn, arg, ok) == [fn |-> fn, arg |-> arg, ok |-> ok]

\* pci_dev_put(NULL) and a failed lookup, allocation or registration have no effect
pci_dev_put(pdev) == Call("pci_dev_put", pdev, pdev # NULL)
pci_free_p2pmem(pdev, addr, size) == Call("pci_free_p2pmem", addr, TRUE)
misc_deregister == Call("misc_deregister", 0, TRUE)

Count(fn, log) == Cardinality({i \in 1 .. Len(log) : log[i].fn = fn /\ log[i].ok})
Attempts(fn, log) == Cardinality({i \in 1 .. Len(log) : log[i].fn = fn})

DevRefsHeld == Count("pci_get_domain_bus_and_slot", calls) - Count("pci_dev_put", calls)
RegionsHeld == Count("pci_alloc_p2pmem", calls) - Count("pci_free_p2pmem", calls)

(***************************************************************************)
(* p2pmmap_init                                                            *)
(***************************************************************************)
\* Variant of the size check without its second operand
SizeRejected_NoAlignment(size) == size < PAGE_SIZE

\* p2pmem_size < (1 << PAGE_SHIFT) || p2pmem_size % (1 << PAGE_SHIFT) != 0
SizeRejected(size) == size < PAGE_SIZE \/ size % PAGE_SIZE # 0

\* Variant of the error labels that frees the region wherever it puts the device
InitUnwind_FreeAlways(label, m) ==
  CASE label = "err_no_pci_slot" -> <<>>
    [] label = "err_p2pmem_alloc_failed" ->
         <<pci_free_p2pmem(m.pdev, m.p2pmem, m.size), pci_dev_put(m.pdev)>>
    [] label = "err_misc_register_failed" ->
         <<pci_free_p2pmem(m.pdev, m.p2pmem, m.size), pci_dev_put(m.pdev)>>

\* The error labels: the clean-up calls made on a jump to the label, given pmm
InitUnwind(label, m) ==
  CASE label = "err_no_pci_slot" -> <<>>
    [] label = "err_p2pmem_alloc_failed" -> <<pci_dev_put(m.pdev)>>
    [] label = "err_misc_register_failed" -> <<pci_dev_put(m.pdev)>>

\* Variant of the error labels that returns the local variable as it is
InitLabelRet_KeepRet(label, r) == r

\* The value returned after a jump to the label; ret is the local variable
InitLabelRet(label, r) ==
  CASE label = "err_no_pci_slot" -> -EINVAL
    [] label = "err_p2pmem_alloc_failed" -> -EINVAL
    [] label = "err_misc_register_failed" -> r

InitResult(r, site, m, log, reg) ==
  [ret |-> r, site |-> site, pmm |-> m, calls |-> log, registered |-> reg]

\* Variant of the error exits that leaves the misc device registered
Goto_Registered(label, r, site, m, log) ==
  InitResult(InitLabelRet(label, r), site, m, log \o InitUnwind(label, m), TRUE)

\* goto label: the clean-up of the label, then its return
Goto(label, r, site, m, log) ==
  InitResult(InitLabelRet(label, r), site, m, log \o InitUnwind(label, m), FALSE)

\* The whole of p2pmmap_init: allocAddr is what pci_alloc_p2pmem returns (null
\* on failure) and regRet what misc_register returns, should they be called.
InitRun(loc, size, allocAddr, regRet) ==
  IF loc.null
  THEN InitResult(-EINVAL, "no_param", PmmZero, <<>>, FALSE)
  ELSE
  LET a == ParseLocator(loc.s) IN
  IF a.ret < 3
  THEN Goto("err_no_pci_slot", a.ret, "parse", PmmZero, <<>>)
  ELSE
  LET pdev == pci_get_domain_bus_and_slot(a.domain, a.bus, PCI_DEVFN(a.slot, a.func))
      log1 == <<Call("pci_get_domain_bus_and_slot", pdev, pdev # NULL)>>
  IN
  IF pdev = NULL
  THEN Goto("err_no_pci_slot", a.ret, "lookup", PmmZero, log1)
  ELSE IF ~pci_has_p2pmem(pdev)
  THEN InitResult(-ENOTSUPP, "no_p2pmem", PmmZero, log1, FALSE)
  ELSE IF SizeRejected(size)
  THEN Goto("err_p2pmem_alloc_failed", a.ret, "size", PmmZero, log1)
  ELSE
  LET m == [pdev |-> pdev, p2pmem |-> allocAddr, size |-> size, opened |-> 0]
      log2 == Append(log1, Call("pci_alloc_p2pmem", allocAddr, allocAddr # NullPtr))
  IN
  IF allocAddr = NullPtr
  THEN Goto("err_p2pmem_alloc_failed", a.ret, "alloc", m, log2)
  ELSE
  LET log3 == Append(log2, Call("misc_register", regRet, regRet = 0)) IN
  IF regRet # 0
  THEN Goto("err_misc_register_failed", regRet, "misc_register", m, log3)
  ELSE InitResult(0, "loaded", m, log3, TRUE)

\* Outcomes of the platform calls of p2pmmap_init
AllocOutcomes == AllocAddrs \cup {NullPtr}
RegisterOutcomes == {0, -EBUSY}

p2pmmap_init ==
  /\ mod_state = "unloaded"
  /\ \E allocAddr \in AllocOutcomes, regRet \in RegisterOutcomes :
       \E r \in {InitRun(target_pci_dev, p2pmem_size, allocAddr, regRet)} :
       /\ pmm' = r.pmm
       /\ init_ret' = r.ret
       /\ init_site' = r.site
       /\ parsed' = IF target_pci_dev.null THEN NoAddr
                    ELSE ParseLocator(target_pci_dev.s)
       /\ registered' = r.registered
       /\ calls' = r.calls
       /\ mod_state' = IF r.ret = 0 THEN "live" ELSE "failed"
  /\ UNCHANGED <<target_pci_dev, p2pmem_size, exit_pc, pc, ret, vma, faults,
                 page_ref, n_faults>>

(***************************************************************************)
(* p2pmmap_exit: runs when the module is unloaded, which the kernel allows *)
(* only while nobody holds a reference on the module (.owner of the fops)  *)
(***************************************************************************)
\* Variant of p2pmmap_exit that frees the region before it deregisters
ExitSteps_FreeFirst == <<"pci_free_p2pmem", "misc_deregister", "pci_dev_put">>

\* The statements of p2pmmap_exit, in order
ExitSteps == <<"misc_deregister", "pci_free_p2pmem", "pci_dev_put">>

ExitCall(fn) ==
  CASE fn = "misc_deregister" -> misc_deregister
    [] fn = "pci_free_p2pmem" -> pci_free_p2pmem(pmm.pdev, pmm.p2pmem, pmm.size)
    [] fn = "pci_dev_put" -> pci_dev_put(pmm.pdev)

ModuleUnused == \A p \in Procs : pc[p] = "idle"

p2pmmap_exit ==
  /\ mod_state \in {"live", "going"}
  /\ ModuleUnused
  /\ exit_pc <= Len(ExitSteps)
  /\ calls' = Append(calls, ExitCall(ExitSteps[exit_pc]))
  /\ registered' = (registered /\ ExitSteps[exit_pc] # "misc_deregister")
  /\ exit_pc' = exit_pc + 1
  /\ mod_state' = IF exit_pc = Len(ExitSteps) THEN "gone" ELSE "going"
  /\ UNCHANGED <<target_pci_dev, p2pmem_size, pmm, init_ret, init_site, parsed,
                 pc, ret, vma, faults, page_ref, n_faults>>

(***************************************************************************)
(* Sessions: p2pmmap_open, p2pmmap_release                                 *)
(* The kernel calls .open for every open(2) of the device while the module *)
(* is live, and .release once for every file whose .open returned 0.       *)
(***************************************************************************)
atomic_read(v) == v
\* Variant of the increment that stores 1
atomic_inc_Set(v) == 1
atomic_inc(v) == v + 1
\* Variant of the decrement that leaves the counter alone
atomic_dec_Lost(v) == v
atomic_dec(v) == v - 1

Holders == {p \in Procs : pc[p] = "opened"}
InOpen == {p \in Procs : pc[p] = "inc"}

CanCall(p) ==
  /\ mod_state = "live"
  /\ registered
  /\ pc[p] = "idle"

\* Line 38-39: if (atomic_read(&pmm.opened)) return -EBUSY;
p2pmmap_open_read(p) ==
  /\ CanCall(p)
  /\ IF atomic_read(pmm.opened) # 0
     THEN /\ ret' = [ret EXCEPT ![p] = -EBUSY]
          /\ pc' = pc
     ELSE /\ pc' = [pc EXCEPT ![p] = "inc"]
          /\ ret' = ret
  /\ UNCHANGED <<modvars, pmm, vma, faults, page_ref, n_faults>>

\* Line 41-42: atomic_inc(&pmm.opened); return 0;
p2pmmap_open_inc(p) ==
  /\ pc[p] = "inc"
  /\ pmm' = [pmm EXCEPT !.opened = atomic_inc(@)]
  /\ pc' = [pc EXCEPT ![p] = "opened"]
  /\ ret' = [ret EXCEPT ![p] = 0]
  /\ UNCHANGED <<modvars, vma, faults, page_ref, n_faults>>

\* Variant of release that closes the session and leaves the counter alone
ReleaseBody_NoDec(p) ==
  /\ pc' = [pc EXCEPT ![p] = "idle"]
  /\ ret' = [ret EXCEPT ![p] = 0]
  /\ vma' = [vma EXCEPT ![p] = NoVma]
  /\ UNCHANGED <<modvars, pmm, faults, page_ref, n_faults>>

\* Lines 45-49; the caller's mapping goes away with its file
ReleaseBody(p) ==
  /\ pmm' = [pmm EXCEPT !.opened = atomic_dec(@)]
  /\ pc' = [pc EXCEPT ![p] = "idle"]
  /\ ret' = [ret EXCEPT ![p] = 0]
  /\ vma' = [vma EXCEPT ![p] = NoVma]
  /\ UNCHANGED <<modvars, faults, page_ref, n_faults>>

p2pmmap_release(p) ==
  /\ pc[p] = "opened"
  /\ ReleaseBody(p)

\* p2pmmap_release called for a caller that holds no open file
p2pmmap_release_unopened(p) ==
  /\ mod_state = "live"
  /\ registered
  /\ pc[p] = "idle"
  /\ pmm.opened > -MaxUnderflow
  /\ ReleaseBody(p)

(***************************************************************************)
(* p2pmmap_mmap                                                            *)
(***************************************************************************)
\* Variant of the range check that also rejects a request ending at the end
MmapRejected_Strict(off, len, size) == WordLe(size, WordAdd(off, len))

\* Variant of the range check that leaves the offset out
MmapRejected_LenOnly(off, len, size) == WordLt(size, len)

\* Line 94: off + len > pmm.size
MmapRejected(off, len, size) == WordLt(size, WordAdd(off, len))

PgoffChoices == {ToWord(n) : n \in 0 .. MaxPgoff}
LenChoices == {ToWord(k * PAGE_SIZE + d) : k \in 0 .. MaxLenPages, d \in {0, 1}}
                \ {ToWord(0)}

\* The last vm_pgoff whose shift fits the unsigned long, and the first whose
\* shift does not
FirstWrapPgoff ==
  [i \in Limbs |-> IF i = NumLimbs THEN LimbMod \div PAGE_SIZE ELSE 0]
WrapPgoffs == {WordSub(FirstWrapPgoff, ToWord(1)), FirstWrapPgoff}

\* Variant of the handler that attaches the fault handler before the range check
p2pmmap_mmap_OpsFirst(p, vm_pgoff, len) ==
  /\ pc[p] = "opened"
  /\ ~vma[p].vm_ops
  /\ vma' = [vma EXCEPT ![p] = [vm_pgoff |-> vm_pgoff, len |-> len, vm_ops |-> TRUE]]
  /\ ret' = [ret EXCEPT ![p] =
               IF MmapRejected(ShiftLeft(vm_pgoff), len, ToWord(pmm.size))
               THEN -ENOMEM ELSE 0]
  /\ UNCHANGED <<modvars, pmm, pc, faults, page_ref, n_faults>>

\* Lines 88-102
p2pmmap_mmap(p, vm_pgoff, len) ==
  /\ pc[p] = "opened"
  /\ ~vma[p].vm_ops
  /\ LET off == ShiftLeft(vm_pgoff) IN
     IF MmapRejected(off, len, ToWord(pmm.size))
     THEN /\ ret' = [ret EXCEPT ![p] = -ENOMEM]
          /\ vma' = [vma EXCEPT ![p] = [vm_pgoff |-> vm_pgoff, len |-> len,
                                        vm_ops |-> FALSE]]
     ELSE /\ ret' = [ret EXCEPT ![p] = 0]
          /\ vma' = [vma EXCEPT ![p] = [vm_pgoff |-> vm_pgoff, len |-> len,
                                        vm_ops |-> TRUE]]
  /\ UNCHANGED <<modvars, pmm, pc, faults, page_ref, n_faults>>

(***************************************************************************)
(* p2pmmap_mem_fault                                                       *)
(***************************************************************************)
NoPage == -1

\* Pages a mapping of len bytes covers
PagesOf(len) == (WordVal(len) + PAGE_SIZE - 1) \div PAGE_SIZE

\* vmf->pgoff as the memory manager sets it for a fault on the k-th page of
\* the vma: the page's index in the file, vm_pgoff + k
FaultPgoff(v, k) == WordAdd(v.vm_pgoff, ToWord(k))

\* Variant of the address computation that adds the page number unshifted
FaultPa_NoShift(p2pmem, pagenum) == virt_to_phys(WordAdd(p2pmem, pagenum))

\* Line 63: pa = virt_to_phys(pmm.p2pmem + (pagenum << PAGE_SHIFT))
FaultPa(p2pmem, pagenum) == virt_to_phys(WordAdd(p2pmem, ShiftLeft(pagenum)))

\* Variant of the handler that validates the frame number before the address
MemFault_PfnFirst(m, pagenum) ==
  LET pa == FaultPa(m.p2pmem, pagenum)
      pfn == ShiftRight(pa)
  IN
  IF ~pfn_valid(pfn)
  THEN [ret |-> VM_FAULT_SIGBUS, page |-> NoPage, msg |-> "invalid pfn"]
  ELSE IF pa = ToWord(0)
  THEN [ret |-> VM_FAULT_SIGBUS, page |-> NoPage, msg |-> "wrong pa"]
  ELSE [ret |-> 0, page |-> WordVal(pfn), msg |-> ""]

\* Lines 63-81: the fault's return value, the page put into vmf->page and the
\* message logged with pr_err
MemFault(m, pagenum) ==
  LET pa == FaultPa(m.p2pmem, pagenum)
      pfn == ShiftRight(pa)
  IN
  IF pa = ToWord(0)
  THEN [ret |-> VM_FAULT_SIGBUS, page |-> NoPage, msg |-> "wrong pa"]
  ELSE IF ~pfn_valid(pfn)
  THEN [ret |-> VM_FAULT_SIGBUS, page |-> NoPage, msg |-> "invalid pfn"]
  ELSE [ret |-> 0, page |-> WordVal(pfn), msg |-> ""]

RefOf(f) == IF f \in DOMAIN page_ref THEN page_ref[f] ELSE 0

\* get_page(page)
get_page(f) == [g \in DOMAIN page_ref \cup {f} |-> IF g = f THEN RefOf(f) + 1 ELSE RefOf(g)]

p2pmmap_mem_fault(p, k) ==
  /\ pc[p] = "opened"
  /\ vma[p].vm_ops
  /\ k \in 0 .. PagesOf(vma[p].len) - 1
  /\ n_faults < MaxFaults
  /\ LET pgoff == FaultPgoff(vma[p], k)
         r == MemFault(pmm, pgoff)
     IN
     /\ faults' = faults \cup {[vm_pgoff |-> vma[p].vm_pgoff, k |-> k,
                                 pgoff |-> pgoff, ret |-> r.ret, page |-> r.page,
                                 msg |-> r.msg]}
     /\ page_ref' = IF r.ret = 0 THEN get_page(r.page) ELSE page_ref
  /\ n_faults' = n_faults + 1
  /\ UNCHANGED <<modvars, pmm, pc, ret, vma>>


(***************************************************************************)
(* Specifications                                                          *)
(***************************************************************************)
\* Module life cycle with concurrent callers of open and close: the two
\* steps of p2pmmap_open interleave with the other callers' steps
Next ==
  \/ p2pmmap_init
  \/ p2pmmap_exit
  \/ \E p \in Procs : p2pmmap_open_read(p)
  \/ \E p \in Procs : p2pmmap_open_inc(p)
  \/ \E p \in Procs : p2pmmap_release(p)

Spec == Init /\ [][Next]_vars

\* Module life cycle with concurrent callers of open, mmap, page faults and
\* close
NextMap ==
  \/ p2pmmap_init
  \/ p2pmmap_exit
  \/ \E p \in Procs : p2pmmap_open_read(p)
  \/ \E p \in Procs : p2pmmap_open_inc(p)
  \/ \E p \in Procs : p2pmmap_release(p)
  \/ \E p \in Procs, vm_pgoff \in PgoffChoices, len \in LenChoices :
       p2pmmap_mmap(p, vm_pgoff, len)
  \/ \E p \in Procs, k \in 0 .. MaxLenPages : p2pmmap_mem_fault(p, k)

SpecMap == Init /\ [][NextMap]_vars

\* Concurrent callers whose mmap requests include offsets at the end of the
\* range of the unsigned long
NextWrap ==
  \/ p2pmmap_init
  \/ p2pmmap_exit
  \/ \E p \in Procs : p2pmmap_open_read(p)
  \/ \E p \in Procs : p2pmmap_open_inc(p)
  \/ \E p \in Procs : p2pmmap_release(p)
  \/ \E p \in Procs, vm_pgoff \in PgoffChoices \cup WrapPgoffs, len \in LenChoices :
       p2pmmap_mmap(p, vm_pgoff, len)
  \/ \E p \in Procs, k \in 0 .. MaxLenPages : p2pmmap_mem_fault(p, k)

SpecWrap == Init /\ [][NextWrap]_vars

\* Concurrent callers that may also call release without a matching open
NextCalls ==
  \/ p2pmmap_init
  \/ p2pmmap_exit
  \/ \E p \in Procs : p2pmmap_open_read(p)
  \/ \E p \in Procs : p2pmmap_open_inc(p)
  \/ \E p \in Procs : p2pmmap_release(p)
  \/ \E p \in Procs : p2pmmap_release_unopened(p)

SpecCalls == Init /\ [][NextCalls]_vars

\* Concurrent callers under a fair scheduler: a caller inside p2pmmap_open
\* runs on to its return, and every file that was opened is closed
Fairness ==
  \A p \in Procs : WF_vars(p2pmmap_open_inc(p)) /\ WF_vars(p2pmmap_release(p))

SpecFair == Init /\ [][Next]_vars /\ Fairness

\* The module is loaded with any of the locator strings, and unloaded
NextParse ==
  \/ p2pmmap_init
  \/ p2pmmap_exit

SpecParse == InitParse /\ [][NextParse]_vars

(***************************************************************************)
(* Properties                                                              *)
(***************************************************************************)
Failed(sites) == mod_state = "failed" /\ init_site \in sites

\* C1: under any interleaving of concurrent open() and close() calls at most
\* one session is Open at any time (two racing open() calls never both succeed).
C1_AtMostOneSessionOpen == Cardinality(Holders) <= 1

\* C3: close() always leaves the service Closed (counter 0), whatever the state
\* before the call, also when no open preceded it.
C3_CloseLeavesClosed ==
  [][\A p \in Procs :
       (p2pmmap_release(p) \/ p2pmmap_release_unopened(p)) => pmm'.opened = 0]_vars

\* C4: a startup that fails during region reservation (no peer memory, invalid
\* size, allocator failure) has released the device reference when it returns.
C4_FailedReservationPutsDevice ==
  Failed({"no_p2pmem", "size", "alloc"}) => DevRefsHeld = 0

\* C5: a startup that fails at misc_register has released the reserved region
\* and the device reference when it returns.
C5_FailedRegisterReleasesAll ==
  Failed({"misc_register"}) => (RegionsHeld = 0 /\ DevRefsHeld = 0)

\* The platform call that undoes a platform call of startup
Undo(fn) ==
  CASE fn = "pci_get_domain_bus_and_slot" -> "pci_dev_put"
    [] fn = "pci_alloc_p2pmem" -> "pci_free_p2pmem"
    [] fn = "misc_register" -> "misc_deregister"

Reverse(q) == [i \in 1 .. Len(q) |-> q[Len(q) + 1 - i]]
Fns(q) == [i \in 1 .. Len(q) |-> q[i].fn]
IsPrefix(a, b) == Len(a) <= Len(b) /\ SubSeq(b, 1, Len(a)) = a

\* The calls of a successful startup, and the calls shutdown has made so far
StartupCalls == SubSeq(calls, 1, 3)
ExitCalls == SubSeq(calls, 4, Len(calls))

Done(fn) == Count(fn, calls) >= 1

\* C8: startup with a size of 0 or a size that is no multiple of the page size
\* fails, and where the size validation is reached (the locator resolved to a
\* device with peer memory) it fails there with -EINVAL; the allocator is never
\* called and no allocation is outstanding when startup returns.
C8_InvalidSizeNeverAllocates ==
  (mod_state # "unloaded" /\ (p2pmem_size = 0 \/ p2pmem_size % PAGE_SIZE # 0)) =>
    /\ mod_state = "failed"
    /\ init_ret < 0
    /\ Attempts("pci_alloc_p2pmem", calls) = 0
    /\ RegionsHeld = 0
    /\ (\E i \in 1 .. Len(calls) :
          /\ calls[i].fn = "pci_get_domain_bus_and_slot"
          /\ calls[i].ok
          /\ pci_has_p2pmem(calls[i].arg))
       => (init_site = "size" /\ init_ret = -EINVAL)

C8_Witness ==
  /\ Failed({"size"})
  /\ p2pmem_size > PAGE_SIZE
  /\ p2pmem_size % PAGE_SIZE # 0
  /\ Attempts("pci_alloc_p2pmem", calls) = 0

\* C9: shutdown undoes the calls of startup in reverse order (deregister, free
\* the region, put the device); the region is freed at most once, and never
\* while the misc device is registered or a session is open.
C9_ExitReverseOrder ==
  /\ mod_state \in {"going", "gone"} =>
       IsPrefix(Fns(ExitCalls), [i \in 1 .. 3 |-> Undo(Reverse(Fns(StartupCalls))[i])])
  /\ mod_state = "gone" => Len(ExitCalls) = 3
  /\ Attempts("pci_free_p2pmem", calls) <= 1
  /\ Done("pci_free_p2pmem") =>
       /\ ~registered
       /\ Holders = {} /\ InOpen = {}
       /\ pmm.opened = 0

C9_Witness ==
  /\ mod_state = "gone"
  /\ Fns(ExitCalls) = <<"misc_deregister", "pci_free_p2pmem", "pci_dev_put">>
  /\ \E p \in Procs : ret[p] = 0

\* C10: on every life-cycle path the region and the device reference are each
\* released at most once, the region is never released without a successful
\* reservation before it, and after a successful startup the device reference
\* is held until shutdown, whose last call releases it, exactly once.
C10_ReleaseAtMostOnce ==
  /\ Attempts("pci_free_p2pmem", calls) <= 1
  /\ Attempts("pci_dev_put", calls) <= 1
  /\ \A i \in 1 .. Len(calls) :
       calls[i].fn = "pci_free_p2pmem" =>
         \E j \in 1 .. i - 1 : calls[j].fn = "pci_alloc_p2pmem" /\ calls[j].ok
  /\ DevRefsHeld >= 0 /\ RegionsHeld >= 0
  /\ mod_state = "live" => (DevRefsHeld = 1 /\ Attempts("pci_dev_put", calls) = 0)
  /\ mod_state = "going" => (DevRefsHeld = 1 /\ Attempts("pci_dev_put", calls) = 0)
  /\ mod_state = "gone" =>
       /\ DevRefsHeld = 0
       /\ Count("pci_dev_put", calls) = 1
       /\ calls[Len(calls)].fn = "pci_dev_put"

C10_Witness ==
  /\ mod_state = "gone"
  /\ Count("pci_dev_put", calls) = 1
  /\ Count("pci_free_p2pmem", calls) = 1
  /\ DevRefsHeld = 0 /\ RegionsHeld = 0

\* No caller is between the two steps of p2pmmap_open
NoCallInProgress == InOpen = {}

\* The states callers get to whose calls have never overlapped: one caller at
\* most is inside open or holds a session, and the counter counts the session
SequentialSoFar ==
  /\ Cardinality(Holders \cup InOpen) <= 1
  /\ pmm.opened = Cardinality(Holders)

\* The step starts no call while another caller's call is in progress
SequentialStep ==
  \A p \in Procs : (p2pmmap_open_read(p) \/ p2pmmap_release(p)) => NoCallInProgress

\* C2: with sequential callers, open() succeeds whenever no session is open
\* (at the start and after every close()), open() fails with -EBUSY while a
\* session is open, and close() of the session leaves no session open, in
\* every cycle: as long as the calls have not overlapped, every call that
\* does not overlap another has these outcomes and leaves a state of the
\* same kind.
C2_SequentialCycles ==
  [][(SequentialSoFar /\ SequentialStep) =>
       /\ SequentialSoFar'
       /\ \A p \in Procs :
            /\ (p2pmmap_open_read(p) /\ Holders = {}) => pc'[p] = "inc"
            /\ p2pmmap_open_inc(p) =>
                 (ret'[p] = 0 /\ Holders' = {p} /\ pmm'.opened = 1)
            /\ (p2pmmap_open_read(p) /\ Holders # {}) =>
                 (ret'[p] = -EBUSY /\ Holders' = Holders /\ pmm'.opened = pmm.opened)
            /\ p2pmmap_release(p) =>
                 (ret'[p] = 0 /\ Holders' = {} /\ pmm'.opened = 0)]_vars

\* A caller has closed its session and another caller's open has succeeded,
\* with no call overlapping another
C2_Witness ==
  \E p, q \in Procs :
    /\ p # q
    /\ pc[p] = "idle" /\ ret[p] = 0
    /\ pc[q] = "opened" /\ ret[q] = 0
    /\ pmm.opened = 1
    /\ SequentialSoFar

\* The byte range an mmap request asks for, in unbounded integers
RequestEnd(v) == WordVal(v.vm_pgoff) * PAGE_SIZE + WordVal(v.len)

\* C6: an mmap request is granted if and only if offset + length is at most
\* the region's size; a request beyond it returns -ENOMEM and the fault
\* handler is not attached to the mapping.
C6_MmapIffInRange ==
  \A p \in Holders :
    WordVal(vma[p].len) > 0 =>
      /\ RequestEnd(vma[p]) <= pmm.size => (vma[p].vm_ops /\ ret[p] = 0)
      /\ RequestEnd(vma[p]) > pmm.size => (~vma[p].vm_ops /\ ret[p] = -ENOMEM)

\* A request that ends one byte after the region has been refused
C6_Witness ==
  \E p \in Holders :
    /\ RequestEnd(vma[p]) = pmm.size + 1
    /\ WordVal(vma[p].vm_pgoff) >= 1
    /\ ~vma[p].vm_ops
    /\ ret[p] = -ENOMEM

\* The frame at the given byte offset of the reserved region
RegionFrame(offset) == (WordVal(virt_to_phys(pmm.p2pmem)) + offset) \div PAGE_SIZE

\* C7: a fault on page k of a granted mapping returns the frame at byte offset
\* vm_pgoff * PAGE_SIZE + k * PAGE_SIZE of the reserved region (it fails only
\* where the platform rejects that frame), and two faults on the same page
\* return the same frame.
C7_FaultFrame ==
  /\ \A f \in faults :
       LET frame == RegionFrame(WordVal(f.vm_pgoff) * PAGE_SIZE + f.k * PAGE_SIZE) IN
       /\ f.ret = 0 => f.page = frame
       /\ f.ret # 0 => (frame = 0 \/ ~pfn_valid(ToWord(frame)))
  /\ \A f, g \in faults :
       (WordVal(f.vm_pgoff) + f.k = WordVal(g.vm_pgoff) + g.k) => (f.ret = g.ret /\ f.page = g.page)
  /\ \A fr \in DOMAIN page_ref :
       page_ref[fr] > 0 => \E f \in faults : f.ret = 0 /\ f.page = fr

\* Page 1 of a mapping that starts at page 1 of the region was faulted twice
C7_Witness ==
  \E f \in faults :
    /\ f.ret = 0
    /\ WordVal(f.vm_pgoff) >= 1 /\ f.k >= 1
    /\ f.page = RegionFrame((WordVal(f.vm_pgoff) + f.k) * PAGE_SIZE)
    /\ RefOf(f.page) = 2

\* References held on frame f in the reference counts pr
RefIn(pr, f) == IF f \in DOMAIN pr THEN pr[f] ELSE 0

\* The physical address of page k of mapping v, in unbounded integers
PagePa(v, k) ==
  WordVal(virt_to_phys(pmm.p2pmem)) + (WordVal(v.vm_pgoff) + k) * PAGE_SIZE

\* The record a fault on page k of mapping v has left in fs
FaultOf(fs, v, k) == CHOOSE f \in fs : f.vm_pgoff = v.vm_pgoff /\ f.k = k

\* C11: a fault whose physical address is null fails as a wrong address, before
\* the frame number is looked at; otherwise a fault whose frame number is not
\* valid fails as an invalid frame; both return VM_FAULT_SIGBUS, return no
\* page and change no reference count.  A fault that succeeds adds exactly
\* one reference, to exactly the frame it returns.
C11_FaultValidation ==
  [][\A p \in Procs, k \in 0 .. MaxLenPages :
       p2pmmap_mem_fault(p, k) =>
         LET pa == PagePa(vma[p], k)
             f == FaultOf(faults', vma[p], k)
         IN
         IF pa = 0
         THEN /\ f.ret = VM_FAULT_SIGBUS /\ f.msg = "wrong pa"
              /\ f.page = NoPage /\ page_ref' = page_ref
         ELSE IF ~(pa \div PAGE_SIZE \in FirstFrame .. NumFrames - 1)
         THEN /\ f.ret = VM_FAULT_SIGBUS /\ f.msg = "invalid pfn"
              /\ f.page = NoPage /\ page_ref' = page_ref
         ELSE /\ f.ret = 0 /\ f.msg = "" /\ f.page = pa \div PAGE_SIZE
              /\ \A g \in DOMAIN page_ref' \cup DOMAIN page_ref :
                   RefIn(page_ref', g) = RefIn(page_ref, g) + (IF g = f.page THEN 1 ELSE 0)]_vars

\* One fault was refused for its null address, another one took a reference
C11_Witness ==
  /\ \E f \in faults : f.msg = "wrong pa" /\ f.ret = VM_FAULT_SIGBUS
  /\ \E g \in faults : g.ret = 0 /\ RefOf(g.page) = 1
  /\ \A fr \in DOMAIN page_ref : \E g \in faults : g.page = fr

\* C12: an open() that fails with -EBUSY changes neither the counter nor any
\* session, mapping or module state; an mmap that fails with -ENOMEM changes
\* neither the session, the region, the device nor the module state and
\* attaches no fault handler.  After either failure the device is still
\* registered and the session holder is still in its session, so that it can
\* map, fault and close.
C12_SessionErrorsChangeNothing ==
  [][\A p \in Procs :
       /\ (p2pmmap_open_read(p) /\ pmm.opened # 0) =>
            /\ ret'[p] = -EBUSY
            /\ UNCHANGED <<pmm, pc, vma, modvars, faults, page_ref>>
            /\ registered' /\ mod_state' = "live"
            /\ Holders' = Holders /\ Holders' # {}
       /\ \A vm_pgoff \in PgoffChoices, len \in LenChoices :
            (p2pmmap_mmap(p, vm_pgoff, len) /\ ret'[p] = -ENOMEM) =>
              /\ UNCHANGED <<pmm, pc, modvars, faults, page_ref>>
              /\ \A q \in Procs \ {p} : vma'[q] = vma[q]
              /\ ~vma'[p].vm_ops
              /\ registered' /\ mod_state' = "live"
              /\ p \in Holders']_vars

\* A caller's open has been refused while the holder of the session has a
\* granted mapping and a served fault
C12_Witness ==
  \E p, q \in Procs :
    /\ p # q
    /\ pc[p] = "opened" /\ vma[p].vm_ops /\ ret[p] = 0
    /\ \E f \in faults : f.ret = 0 /\ f.vm_pgoff = vma[p].vm_pgoff
    /\ pc[q] = "idle" /\ ret[q] = -EBUSY
    /\ pmm.opened = 1

\* The exits of p2pmmap_init other than return 0
FailureSites == {"no_param", "parse", "lookup", "no_p2pmem", "size", "alloc",
                 "misc_register"}

\* C13: after a startup that failed, at whichever statement, the misc device
\* is not registered, and no open, mmap or fault has run or ever runs: no
\* caller has entered the driver, no mapping and no fault exists, and the
\* counter is as startup left it.
C13_FailedStartupUnreachable ==
  init_site \in FailureSites =>
    /\ mod_state = "failed"
    /\ init_ret < 0
    /\ ~registered
    /\ Count("misc_register", calls) = 0
    /\ \A p \in Procs : pc[p] = "idle" /\ ret[p] = NoRet /\ vma[p] = NoVma
    /\ faults = {} /\ n_faults = 0
    /\ pmm.opened = 0

\* Startup failed at misc_register, after the region was reserved
C13_Witness ==
  /\ Failed({"misc_register"})
  /\ Count("pci_alloc_p2pmem", calls) = 1
  /\ Attempts("misc_register", calls) = 1
  /\ pmm.p2pmem # NullPtr
  /\ ~registered

\* The string target_pci_dev holds
Target == target_pci_dev.s

\* C14: parsing tries the four-component form first and falls back to the
\* three-component form when fewer than four fields were read.  Every
\* four-component locator yields the domain, bus, slot and function written
\* in it, and every three-component locator yields domain 0 and the bus, slot
\* and function written in it: nothing of the failed first attempt is left.
C14_ParseYieldsFields ==
  (mod_state # "unloaded" /\ ~target_pci_dev.null) =>
    \A d \in DomainFields, b \in BusFields, sl \in SlotFields, f \in FuncFields,
       w \in Widths :
      /\ Target \in {Format4(d, b, sl, f, w), UpperCase(Format4(d, b, sl, f, w))} =>
           parsed = [ret |-> 4, domain |-> d, bus |-> b, slot |-> sl, func |-> f]
      /\ Target \in {Format3(b, sl, f, w), UpperCase(Format3(b, sl, f, w))} =>
           /\ Len(sscanf(Target, 1, Fmt4, 1, <<>>)) < 4
           /\ parsed = [ret |-> 3, domain |-> 0, bus |-> b, slot |-> sl, func |-> f]

\* A three-component locator whose bus is not 0 was parsed
C14_Witness ==
  /\ mod_state # "unloaded" /\ ~target_pci_dev.null
  /\ Target = UpperCase(Format3(255, 31, 7, 2))
  /\ parsed.ret = 3 /\ parsed.domain = 0 /\ parsed.bus = 255

\* s[i .. j] is a number: one or more hexadecimal digits
IsHexField(s, i, j) == i <= j /\ \A n \in i .. j : s[n] \in HexDigits

\* The whole of s is bus:slot.function
Matches3(s) ==
  \E i, j \in 1 .. Len(s) :
    /\ i < j
    /\ s[i] = ":" /\ s[j] = "."
    /\ IsHexField(s, 1, i - 1) /\ IsHexField(s, i + 1, j - 1)
    /\ IsHexField(s, j + 1, Len(s))

\* The whole of s is domain:bus:slot.function
Matches4(s) ==
  \E h \in 1 .. Len(s) :
    /\ s[h] = ":"
    /\ IsHexField(s, 1, h - 1)
    /\ Matches3(SubSeq(s, h + 1, Len(s)))

\* C15: a startup whose locator string matches neither domain:bus:slot.function
\* nor bus:slot.function fails at the parsing with -EINVAL, makes no device
\* lookup and takes no device reference.
C15_MalformedLocatorRejected ==
  (mod_state # "unloaded" /\ ~target_pci_dev.null
     /\ ~Matches4(Target) /\ ~Matches3(Target)) =>
    /\ init_site = "parse"
    /\ init_ret = -EINVAL
    /\ Attempts("pci_get_domain_bus_and_slot", calls) = 0
    /\ Count("pci_get_domain_bus_and_slot", calls) = 0

\* C16 as stated: every kind of startup failure returns a negative status that
\* no other kind of failure returns, and a successful startup returns 0.
C16_DistinctStatuses ==
  /\ mod_state \in {"live", "going", "gone"} => init_ret = 0
  /\ mod_state = "failed" =>
       /\ init_ret < 0
       /\ \A loc \in LocatorChoices, size \in SizeChoices,
             allocAddr \in AllocOutcomes, regRet \in RegisterOutcomes :
            LET r == InitRun(loc, size, allocAddr, regRet) IN
            r.ret = init_ret => r.site = init_site

\* C16 as amended: a successful startup returns 0 and every startup failure
\* returns a negative status: -EINVAL where the locator is missing or
\* malformed, the device is not found, the size is invalid or the allocation
\* fails, -ENOTSUPP where the device has no peer memory, and the status of
\* misc_register where the registration fails.
C16_StartupStatus ==
  /\ mod_state \in {"live", "going", "gone"} => (init_ret = 0 /\ init_site = "loaded")
  /\ mod_state = "failed" =>
       /\ init_ret < 0
       /\ init_site \in FailureSites
       /\ init_site \in {"no_param", "parse", "lookup", "size", "alloc"} =>
            init_ret = -EINVAL
       /\ init_site = "no_p2pmem" => init_ret = -ENOTSUPP
       /\ init_site = "misc_register" =>
            \E i \in 1 .. Len(calls) :
              /\ calls[i].fn = "misc_register" /\ ~calls[i].ok
              /\ init_ret = calls[i].arg

\* The allocation failed for a device and a size that are valid, with the
\* status that a malformed locator has
C16_Witness ==
  /\ Failed({"alloc"})
  /\ init_ret = -EINVAL
  /\ InitRun(Str(<<>>), p2pmem_size, NullPtr, 0).site = "parse"
  /\ InitRun(Str(<<>>), p2pmem_size, NullPtr, 0).ret = init_ret

\* C17: while release is called only for sessions whose open succeeded, in
\* every reachable state under any interleaving pmm.opened is the number of
\* sessions that were opened and are not yet closed; it is never negative.
C17_CounterIsOpenSessions ==
  /\ pmm.opened = Cardinality(Holders)
  /\ pmm.opened >= 0

\* Two opens raced and both succeeded: two sessions are open, the counter is 2
C17_Witness ==
  \E p, q \in Procs :
    /\ p # q
    /\ pc[p] = "opened" /\ ret[p] = 0
    /\ pc[q] = "opened" /\ ret[q] = 0
    /\ pmm.opened = 2

\* C18: no permanent lockout.  Where every session that was opened is closed
\* in the end, a counter that is not 0 returns to 0, under every interleaving
\* of open and close, also after two opens raced and both succeeded; and an
\* open that reads the counter as 0 is let in and returns 0.
C18_NoPermanentLockout ==
  /\ (pmm.opened # 0) ~> (pmm.opened = 0 /\ Holders = {})
  /\ [][\A p \in Procs :
          /\ (p2pmmap_open_read(p) /\ pmm.opened = 0) => pc'[p] = "inc"
          /\ p2pmmap_open_inc(p) => (ret'[p] = 0 /\ pc'[p] = "opened")]_vars

\* Every caller has opened and closed a session, and the counter is back at 0
C18_Witness ==
  /\ mod_state = "live"
  /\ \A p \in Procs : pc[p] = "idle" /\ ret[p] = 0
  /\ pmm.opened = 0

\* C19: the fault handler checks no bounds itself, yet the size check of
\* startup and the range check of mmap keep every fault inside the region:
\* the region's size is a positive multiple of the page size, and every page
\* pg that a granted mapping covers, and every page that was faulted, has
\* pg * PAGE_SIZE + PAGE_SIZE <= pmm.size; a page returned by a fault lies
\* between the first and the last byte of the region.
C19_FaultsInsideRegion ==
  /\ mod_state = "live" => (pmm.size > 0 /\ pmm.size % PAGE_SIZE = 0)
  /\ \A p \in Holders :
       vma[p].vm_ops =>
         \A k \in 0 .. PagesOf(vma[p].len) - 1 :
           (WordVal(vma[p].vm_pgoff) + k) * PAGE_SIZE + PAGE_SIZE <= pmm.size
  /\ \A f \in faults :
       /\ Fits(f.pgoff)
       /\ WordVal(f.pgoff) * PAGE_SIZE + PAGE_SIZE <= pmm.size
       /\ f.ret = 0 =>
            /\ f.page * PAGE_SIZE >= WordVal(virt_to_phys(pmm.p2pmem))
            /\ f.page * PAGE_SIZE + PAGE_SIZE
                 <= WordVal(virt_to_phys(pmm.p2pmem)) + pmm.size

\* The last page of the region was faulted through a mapping that starts
\* after the region's first page and whose length is no multiple of the page
\* size
C19_Witness ==
  \E p \in Holders, f \in faults :
    /\ vma[p].vm_ops
    /\ WordVal(vma[p].vm_pgoff) >= 1
    /\ WordVal(vma[p].len) % PAGE_SIZE # 0
    /\ f.vm_pgoff = vma[p].vm_pgoff /\ f.k = PagesOf(vma[p].len) - 1 /\ f.k >= 1
    /\ f.ret = 0
    /\ WordVal(f.pgoff) * PAGE_SIZE + PAGE_SIZE = pmm.size

\* The request's offset or its end does not fit the unsigned long: the shift
\* loses bits, or the sum is below the offset
Wraps(v) ==
  \/ ShiftRight(ShiftLeft(v.vm_pgoff)) # v.vm_pgoff
  \/ WordLt(WordAdd(ShiftLeft(v.vm_pgoff), v.len), ShiftLeft(v.vm_pgoff))

\* vm_pgoff * PAGE_SIZE + len <= size in unbounded integers, for a len and a
\* size below 2^31: len <= size and vm_pgoff <= (size - len) / PAGE_SIZE
TrulyInRange(v, size) ==
  /\ WordVal(v.len) <= size
  /\ WordLe(v.vm_pgoff, ToWord((size - WordVal(v.len)) \div PAGE_SIZE))

\* C20: with the shift and the sum computed in unsigned long, mmap still
\* refuses every request whose offset + length, in unbounded integers, is
\* beyond the region's size: no request whose shift or sum wraps around is
\* granted a mapping.
C20_WrappingRequestsRefused ==
  \A p \in Holders :
    (WordVal(vma[p].len) > 0 /\ (Wraps(vma[p]) \/ ~TrulyInRange(vma[p], pmm.size))) =>
      (~vma[p].vm_ops /\ ret[p] = -ENOMEM)

====
